---- MODULE Spec2Model ----
(***************************************************************************)
(* Model of the go-metrics InfluxDB reporter (src/influxdb.go).            *)
(*                                                                         *)
(* One goroutine runs InfluxDBWithTags: it parses the URL, builds the      *)
(* reporter, makes the first client and enters run, a select loop over two *)
(* time.Tick channels.  The report tick runs send (one report cycle), the  *)
(* ping tick runs the readiness check and, when it fails, makeClient.      *)
(* The timers, the cancellation of ctx and the backend's answers are the   *)
(* environment.                                                            *)
(*                                                                         *)
(* Instants are whole time units counted from Go's zero time, which is     *)
(* what Time.Truncate rounds against.  Statistic values are small naturals *)
(* tagged with their Go type; float64(int64) is exact below 2^53, far      *)
(* above every value used here.                                            *)
(***************************************************************************)
EXTENDS Naturals, Sequences, FiniteSets, Bags, TLC

VARIABLES
    r,             \* the reporter's configuration fields (lines 14-24, 42-52)
    client,        \* r.client: identity of the current client, 0 = none
    clients,       \* number of clients constructed so far by client.NewClient
    pc,            \* position of the goroutine
    cancelled,     \* ctx has been cancelled
    intervalTicker,\* a tick is buffered in the intervalTicker channel
    pingTicker,    \* a tick is buffered in the pingTicker channel
    pingsFired,    \* ticks the 5 s timer has delivered so far
    lastPing,      \* outcome of the last readiness check
    writeAPI,      \* send's local writeAPI: the client it was obtained from
    now0,          \* send's time.Now() reading (line 86)
    now,           \* send's local now after the optional truncation (line 88)
    idx,           \* position of r.reg.Each in the registry, 0 = no cycle yet
    written,       \* bag of points given to writeAPI.WritePoint in this cycle
    flushes,       \* calls of writeAPI.Flush in this cycle
    flushOk,       \* whether the backend accepted the last flushed batch
    sendErr,       \* the error value send returned last
    log            \* kinds of messages given to log.Printf so far

vars == <<r, client, clients, pc, cancelled, intervalTicker, pingTicker,
          pingsFired, lastPing, writeAPI, now0, now, idx, written, flushes,
          flushOk, sendErr, log>>

----------------------------------------------------------------------------
(* Bounds of the model *)

\* Largest instant time.Now() can return.
MaxNow == 3
\* Number of ticks the ping timer delivers in an observed run.
MaxPings == 2

Instants == 0..MaxNow

----------------------------------------------------------------------------
(* Values, snapshots and the registry *)

Int64(n) == [typ |-> "int64", v |-> n]
Float64(n) == [typ |-> "float64", v |-> n]

\* float64(x) of line 124 and the like: the value converted to float64.
ToFloat64(x) == [typ |-> "float64", v |-> x.v]

\* The quantiles passed to Percentiles, as parts per 10000.
Quantiles == <<5000, 7500, 9500, 9900, 9990, 9999>>

\* ms.Percentiles(qs): the values at the quantiles qs, in the same order.
Percentiles(ms, qs) == [i \in DOMAIN qs |-> ms.pct[qs[i]]]

CounterSnap == [count |-> Int64(42)]
GaugeSnap == [value |-> Int64(7)]
GaugeFloatSnap == [value |-> Float64(8)]
HistogramSnap ==
    [count |-> Int64(3), max |-> Int64(9), mean |-> Float64(5),
     min |-> Int64(1), stddev |-> Float64(2), variance |-> Float64(4),
     pct |-> (5000 :> Float64(11)) @@ (7500 :> Float64(12)) @@
             (9500 :> Float64(13)) @@ (9900 :> Float64(14)) @@
             (9990 :> Float64(15)) @@ (9999 :> Float64(16))]
MeterSnap ==
    [count |-> Int64(6), rate1 |-> Float64(21), rate5 |-> Float64(22),
     rate15 |-> Float64(23), rateMean |-> Float64(24)]
TimerSnap ==
    [count |-> Int64(30), max |-> Int64(39), mean |-> Float64(35),
     min |-> Int64(31), stddev |-> Float64(32), variance |-> Float64(34),
     pct |-> (5000 :> Float64(41)) @@ (7500 :> Float64(42)) @@
             (9500 :> Float64(43)) @@ (9900 :> Float64(44)) @@
             (9990 :> Float64(45)) @@ (9999 :> Float64(46)),
     rate1 |-> Float64(51), rate5 |-> Float64(52),
     rate15 |-> Float64(53), rateMean |-> Float64(54)]

Entry(name, kind, ms) == [name |-> name, kind |-> kind, ms |-> ms]

eC == Entry("c", "Counter", CounterSnap)
eG == Entry("g", "Gauge", GaugeSnap)
eF == Entry("f", "GaugeFloat64", GaugeFloatSnap)
eH == Entry("h", "Histogram", HistogramSnap)
eM == Entry("m", "Meter", MeterSnap)
eT == Entry("t", "Timer", TimerSnap)
\* A kind the registry accepts and send has no case for.
eU == Entry("u", "Healthcheck", [healthy |-> TRUE])

\* The registries of the model, each in one order r.reg.Each may visit it.
Registries ==
    { <<>>, <<eF>>, <<eT>>, <<eU, eC>>, <<eT, eH>>, <<eM, eU, eG>> }

\* The base tag sets of the model: maps from tag key to tag value.
TagSets ==
    { <<>>, ("host" :> "a"), ("bucket" :> "prod") @@ ("host" :> "a") }

Intervals == {2, 3}

\* The url arguments of the model, and those uurl.Parse rejects.
Urls == {"http://localhost:8086", ":8086"}
ParseErr(u) == u \in {":8086"}

----------------------------------------------------------------------------
(* The snapshot transformation of send *)

\* client.NewPoint(measurement, tags, fields, ts)
NewPoint(measurement, tags, fields, ts) ==
    [measurement |-> measurement, tags |-> tags, fields |-> fields, ts |-> ts]

\* bucketTags: a fresh map holding the tags, then m["bucket"] = bucket.
bucketTags(bucket, tags) ==
    [k \in DOMAIN tags \cup {"bucket"} |->
        IF k = "bucket" THEN bucket ELSE tags[k]]

\* fmt.Sprintf("%s.<suffix>", name)
FieldKey(name, suffix) == name \o "." \o suffix

\* The Histogram fields with the last two percentile indices exchanged.
HistogramFieldsSwapped(ms) ==
    LET ps == Percentiles(ms, Quantiles) IN
    ("count" :> ToFloat64(ms.count)) @@ ("max" :> ToFloat64(ms.max)) @@
    ("mean" :> ms.mean) @@ ("min" :> ToFloat64(ms.min)) @@
    ("stddev" :> ms.stddev) @@ ("variance" :> ms.variance) @@
    ("p50" :> ps[1]) @@ ("p75" :> ps[2]) @@ ("p95" :> ps[3]) @@
    ("p99" :> ps[4]) @@ ("p999" :> ps[6]) @@ ("p9999" :> ps[5])

\* The fields map of the Histogram case (lines 122-136).
HistogramFields(ms) ==
    LET ps == Percentiles(ms, Quantiles) IN
    ("count" :> ToFloat64(ms.count)) @@ ("max" :> ToFloat64(ms.max)) @@
    ("mean" :> ms.mean) @@ ("min" :> ToFloat64(ms.min)) @@
    ("stddev" :> ms.stddev) @@ ("variance" :> ms.variance) @@
    ("p50" :> ps[1]) @@ ("p75" :> ps[2]) @@ ("p95" :> ps[3]) @@
    ("p99" :> ps[4]) @@ ("p999" :> ps[5]) @@ ("p9999" :> ps[6])

\* The Meter fields with the 5 and 15 minute rates exchanged.
MeterFieldsSwapped(ms) ==
    ("count" :> ToFloat64(ms.count)) @@ ("m1" :> ms.rate1) @@
    ("m5" :> ms.rate15) @@ ("m15" :> ms.rate5) @@ ("mean" :> ms.rateMean)

\* The fields map of the Meter case (lines 148-154).
MeterFields(ms) ==
    ("count" :> ToFloat64(ms.count)) @@ ("m1" :> ms.rate1) @@
    ("m5" :> ms.rate5) @@ ("m15" :> ms.rate15) @@ ("mean" :> ms.rateMean)

\* The Timer fields with the rate keyed "mean" as in the Meter case, so that
\* it takes the place of the distribution's mean.
TimerFieldsMeanClash(ms) ==
    LET ps == Percentiles(ms, Quantiles) IN
    ("count" :> ToFloat64(ms.count)) @@ ("max" :> ToFloat64(ms.max)) @@
    ("mean" :> ms.rateMean) @@ ("min" :> ToFloat64(ms.min)) @@
    ("stddev" :> ms.stddev) @@ ("variance" :> ms.variance) @@
    ("p50" :> ps[1]) @@ ("p75" :> ps[2]) @@ ("p95" :> ps[3]) @@
    ("p99" :> ps[4]) @@ ("p999" :> ps[5]) @@ ("p9999" :> ps[6]) @@
    ("m1" :> ms.rate1) @@ ("m5" :> ms.rate5) @@ ("m15" :> ms.rate15)

\* The fields map of the Timer case (lines 167-185).
TimerFields(ms) ==
    LET ps == Percentiles(ms, Quantiles) IN
    ("count" :> ToFloat64(ms.count)) @@ ("max" :> ToFloat64(ms.max)) @@
    ("mean" :> ms.mean) @@ ("min" :> ToFloat64(ms.min)) @@
    ("stddev" :> ms.stddev) @@ ("variance" :> ms.variance) @@
    ("p50" :> ps[1]) @@ ("p75" :> ps[2]) @@ ("p95" :> ps[3]) @@
    ("p99" :> ps[4]) @@ ("p999" :> ps[5]) @@ ("p9999" :> ps[6]) @@
    ("m1" :> ms.rate1) @@ ("m5" :> ms.rate5) @@ ("m15" :> ms.rate15) @@
    ("meanrate" :> ms.rateMean)

\* for k, v := range fields { WritePoint(NewPoint(.., bucketTags(k, tags),
\* {key: v}, ts)) }: the bag of the points written, one per key of fields.
RECURSIVE RangeFields(_, _, _, _, _, _)
RangeFields(keys, fields, measurement, tags, key, ts) ==
    IF keys = {} THEN EmptyBag
    ELSE LET k == CHOOSE x \in keys : TRUE IN
         SetToBag({NewPoint(measurement, bucketTags(k, tags),
                            (key :> fields[k]), ts)})
         (+) RangeFields(keys \ {k}, fields, measurement, tags, key, ts)

\* The single point tagged through bucketTags like the compound metrics.
SinglePointBucketed(rep, key, value, ts) ==
    SetToBag({NewPoint(rep.measurement, bucketTags("value", rep.tags),
                       (key :> value), ts)})

\* Points of a metric with one field and the reporter's tags.
SinglePoint(rep, key, value, ts) ==
    SetToBag({NewPoint(rep.measurement, rep.tags, (key :> value), ts)})

\* Points of a metric with one point per statistic.
BucketPoints(rep, key, fields, ts) ==
    RangeFields(DOMAIN fields, fields, rep.measurement, rep.tags, key, ts)

\* The type switch with a default case that reports the entry as a gauge.
TransformUnknownAsGauge(rep, e, ts) ==
    CASE e.kind = "Counter" ->
            SinglePoint(rep, FieldKey(e.name, "count"), e.ms.count, ts)
      [] e.kind = "Gauge" ->
            SinglePoint(rep, FieldKey(e.name, "gauge"), e.ms.value, ts)
      [] e.kind = "GaugeFloat64" ->
            SinglePoint(rep, FieldKey(e.name, "gauge"), e.ms.value, ts)
      [] e.kind = "Histogram" ->
            BucketPoints(rep, FieldKey(e.name, "histogram"),
                         HistogramFields(e.ms), ts)
      [] e.kind = "Meter" ->
            BucketPoints(rep, FieldKey(e.name, "meter"), MeterFields(e.ms), ts)
      [] e.kind = "Timer" ->
            BucketPoints(rep, FieldKey(e.name, "timer"), TimerFields(e.ms), ts)
      [] OTHER -> SinglePoint(rep, FieldKey(e.name, "gauge"), Int64(0), ts)

\* The body of the function given to r.reg.Each: the type switch of
\* lines 92-195, as the bag of points it writes for one entry.
Transform(rep, e, ts) ==
    CASE e.kind = "Counter" ->
            SinglePoint(rep, FieldKey(e.name, "count"), e.ms.count, ts)
      [] e.kind = "Gauge" ->
            SinglePoint(rep, FieldKey(e.name, "gauge"), e.ms.value, ts)
      [] e.kind = "GaugeFloat64" ->
            SinglePoint(rep, FieldKey(e.name, "gauge"), e.ms.value, ts)
      [] e.kind = "Histogram" ->
            BucketPoints(rep, FieldKey(e.name, "histogram"),
                         HistogramFields(e.ms), ts)
      [] e.kind = "Meter" ->
            BucketPoints(rep, FieldKey(e.name, "meter"), MeterFields(e.ms), ts)
      [] e.kind = "Timer" ->
            BucketPoints(rep, FieldKey(e.name, "timer"), TimerFields(e.ms), ts)
      [] OTHER -> EmptyBag

\* bucketTags with m aliasing its argument (m := tags): the bucket key is
\* written into the caller's map.
bucketTagsArgInPlace(bucket, tags) == bucketTags(bucket, tags)

\* The map given to bucketTags as tags, after the call: lines 202-206 read it
\* and write only the fresh map m.
bucketTagsArg(bucket, tags) == tags

\* The reporter's tags map after the range loop has called bucketTags for
\* every key of keys.
RECURSIVE RangeTags(_, _)
RangeTags(keys, tags) ==
    IF keys = {} THEN tags
    ELSE LET k == CHOOSE x \in keys : TRUE IN
         RangeTags(keys \ {k}, bucketTagsArg(k, tags))

\* r.tags after the callback of r.reg.Each has run for the entry e: the
\* single-point cases hand r.tags to NewPoint, which reads it; the compound
\* cases hand it to bucketTags once per statistic.
TagsAfter(rep, e) ==
    CASE e.kind = "Histogram" ->
            RangeTags(DOMAIN HistogramFields(e.ms), rep.tags)
      [] e.kind = "Meter" -> RangeTags(DOMAIN MeterFields(e.ms), rep.tags)
      [] e.kind = "Timer" -> RangeTags(DOMAIN TimerFields(e.ms), rep.tags)
      [] OTHER -> rep.tags

\* Time.Round in place of Time.Truncate: to the nearest multiple, halves up.
TruncateRound(t, d) ==
    IF d <= 0 THEN t
    ELSE IF 2 * (t % d) < d THEN t - (t % d) ELSE t + (d - (t % d))

\* Time.Truncate(d): t rounded down to a multiple of d since the zero time;
\* t itself when d <= 0.
Truncate(t, d) == IF d <= 0 THEN t ELSE t - (t % d)

\* Lines 86-89: the timestamp of the cycle from the reading t of the clock.
CycleTime(t, align, interval) == IF align THEN Truncate(t, interval) ELSE t

----------------------------------------------------------------------------
(* The program *)

NoPing == [ready |-> TRUE, err |-> FALSE]

Init ==
    /\ r \in [reg : Registries, interval : Intervals, align : BOOLEAN,
              url : Urls, measurement : {"metrics"}, tags : TagSets]
    /\ client = 0
    /\ clients = 0
    /\ pc = "start"
    /\ cancelled = FALSE
    /\ intervalTicker = FALSE
    /\ pingTicker = FALSE
    /\ pingsFired = 0
    /\ lastPing = NoPing
    /\ writeAPI = 0
    /\ now0 = 0
    /\ now = 0
    /\ idx = 0
    /\ written = EmptyBag
    /\ flushes = 0
    /\ flushOk = TRUE
    /\ sendErr = FALSE
    /\ log = {}

\* makeClient: r.client = client.NewClient(...), a newly constructed client.
makeClient ==
    /\ clients' = clients + 1
    /\ client' = clients + 1

\* InfluxDBWithTags without the return of line 39.
InfluxDBWithTagsNoReturn ==
    /\ pc = "start"
    /\ log' = IF ParseErr(r.url) THEN log \cup {"parse"} ELSE log
    /\ makeClient
    /\ pc' = "select"
    /\ UNCHANGED <<r, cancelled, intervalTicker, pingTicker, pingsFired,
                   lastPing, writeAPI, now0, now, idx, written, flushes,
                   flushOk, sendErr>>

\* InfluxDBWithTags, lines 36-55: parse the url; on an error log and return;
\* otherwise build the reporter, make the client and enter run, which
\* creates the two tickers.
InfluxDBWithTags ==
    /\ pc = "start"
    /\ IF ParseErr(r.url)
       THEN /\ log' = log \cup {"parse"}
            /\ pc' = "returned"
            /\ UNCHANGED <<client, clients>>
       ELSE /\ makeClient
            /\ pc' = "select"
            /\ UNCHANGED log
    /\ UNCHANGED <<r, cancelled, intervalTicker, pingTicker, pingsFired,
                   lastPing, writeAPI, now0, now, idx, written, flushes,
                   flushOk, sendErr>>

Running == pc \in {"select", "each", "ready"}

\* The runtime timer behind time.Tick(r.interval) delivers a tick; the
\* channel buffers one tick and a tick that finds it full is dropped.
IntervalTick ==
    /\ Running
    /\ intervalTicker' = TRUE
    /\ UNCHANGED <<r, client, clients, pc, cancelled, pingTicker, pingsFired,
                   lastPing, writeAPI, now0, now, idx, written, flushes,
                   flushOk, sendErr, log>>

\* The runtime timer behind time.Tick(time.Second * 5) delivers a tick.
PingTick ==
    /\ Running
    /\ pingsFired < MaxPings
    /\ pingsFired' = pingsFired + 1
    /\ pingTicker' = TRUE
    /\ UNCHANGED <<r, client, clients, pc, cancelled, intervalTicker,
                   lastPing, writeAPI, now0, now, idx, written, flushes,
                   flushOk, sendErr, log>>

\* The embedding application cancels ctx.
Cancel ==
    /\ ~cancelled
    /\ cancelled' = TRUE
    /\ UNCHANGED <<r, client, clients, pc, intervalTicker, pingTicker,
                   pingsFired, lastPing, writeAPI, now0, now, idx, written,
                   flushes, flushOk, sendErr, log>>

\* A report tick taken while the readiness check is still in flight, as a
\* handler of its own would take it.
RunSendReentrant ==
    /\ pc \in {"select", "ready"}
    /\ intervalTicker
    /\ intervalTicker' = FALSE
    /\ writeAPI' = client
    /\ \E t \in Instants :
          /\ now0' = t
          /\ now' = CycleTime(t, r.align, r.interval)
    /\ idx' = 1
    /\ written' = EmptyBag
    /\ flushes' = 0
    /\ pc' = "each"
    /\ UNCHANGED <<r, client, clients, cancelled, pingTicker, pingsFired,
                   lastPing, flushOk, sendErr, log>>

\* The write handle obtained once and kept for all later cycles.
RunSendCachedHandle ==
    /\ pc = "select"
    /\ intervalTicker
    /\ intervalTicker' = FALSE
    /\ writeAPI' = IF writeAPI = 0 THEN client ELSE writeAPI
    /\ \E t \in Instants :
          /\ now0' = t
          /\ now' = CycleTime(t, r.align, r.interval)
    /\ idx' = 1
    /\ written' = EmptyBag
    /\ flushes' = 0
    /\ pc' = "each"
    /\ UNCHANGED <<r, client, clients, cancelled, pingTicker, pingsFired,
                   lastPing, flushOk, sendErr, log>>

\* run, case <-intervalTicker, and the head of send (lines 84-89): take the
\* tick, get the write handle of the current client, read the clock.
RunSend ==
    /\ pc = "select"
    /\ intervalTicker
    /\ intervalTicker' = FALSE
    /\ writeAPI' = client
    /\ \E t \in Instants :
          /\ now0' = t
          /\ now' = CycleTime(t, r.align, r.interval)
    /\ idx' = 1
    /\ written' = EmptyBag
    /\ flushes' = 0
    /\ pc' = "each"
    /\ UNCHANGED <<r, client, clients, cancelled, pingTicker, pingsFired,
                   lastPing, flushOk, sendErr, log>>

\* One call of the function given to r.reg.Each, with ts the timestamp it
\* gives its points.
EachEntry(ts) ==
    /\ pc = "each"
    /\ idx <= Len(r.reg)
    /\ written' = written (+) Transform(r, r.reg[idx], ts)
    /\ r' = [r EXCEPT !.tags = TagsAfter(r, r.reg[idx])]
    /\ idx' = idx + 1
    /\ UNCHANGED <<client, clients, pc, cancelled, intervalTicker,
                   pingTicker, pingsFired, lastPing, writeAPI, now0, now,
                   flushes, flushOk, sendErr, log>>

\* The entry transformed with a clock reading of its own.
SendEachFreshNow ==
    \E t \in Instants : EachEntry(CycleTime(t, r.align, r.interval))

\* send, lines 90-196: the next entry of the registry is transformed with
\* the cycle's now.
SendEach == EachEntry(now)

\* Flush only a batch that holds points.
FlushAndReturnSkipEmpty(ok) ==
    /\ pc = "each"
    /\ idx > Len(r.reg)
    /\ flushes' = IF written = EmptyBag THEN flushes ELSE flushes + 1
    /\ flushOk' = ok
    /\ sendErr' = FALSE
    /\ log' = IF sendErr' THEN log \cup {"send"} ELSE log
    /\ pc' = "select"
    /\ UNCHANGED <<r, client, clients, cancelled, intervalTicker, pingTicker,
                   pingsFired, lastPing, writeAPI, now0, now, idx, written>>

\* A failed batch makes a new client.
FlushAndReturnReconnect(ok) ==
    /\ pc = "each"
    /\ idx > Len(r.reg)
    /\ flushes' = flushes + 1
    /\ flushOk' = ok
    /\ sendErr' = FALSE
    /\ log' = IF sendErr' THEN log \cup {"send"} ELSE log
    /\ IF ok THEN UNCHANGED <<client, clients>> ELSE makeClient
    /\ pc' = "select"
    /\ UNCHANGED <<r, cancelled, intervalTicker, pingTicker,
                   pingsFired, lastPing, writeAPI, now0, now, idx, written>>

\* A failed batch ends run.
FlushAndReturnFatal(ok) ==
    /\ pc = "each"
    /\ idx > Len(r.reg)
    /\ flushes' = flushes + 1
    /\ flushOk' = ok
    /\ sendErr' = ~ok
    /\ log' = IF sendErr' THEN log \cup {"send"} ELSE log
    /\ pc' = IF ok THEN "select" ELSE "returned"
    /\ UNCHANGED <<r, client, clients, cancelled, intervalTicker, pingTicker,
                   pingsFired, lastPing, writeAPI, now0, now, idx, written>>

\* The rest of the report tick's case once Each is over, with ok the
\* backend's answer to the batch: writeAPI.Flush(), return nil (lines
\* 197-198), then run's check of the error (lines 70-72) and back to select.
FlushAndReturn(ok) ==
    /\ pc = "each"
    /\ idx > Len(r.reg)
    /\ flushes' = flushes + 1
    /\ flushOk' = ok
    /\ sendErr' = FALSE
    /\ log' = IF sendErr' THEN log \cup {"send"} ELSE log
    /\ pc' = "select"
    /\ UNCHANGED <<r, client, clients, cancelled, intervalTicker, pingTicker,
                   pingsFired, lastPing, writeAPI, now0, now, idx, written>>

SendFlush == \E ok \in BOOLEAN : FlushAndReturn(ok)

\* A ping tick taken while a report cycle is still running, as a loop of its
\* own would take it.
RunPingAnywhere ==
    /\ pc \in {"select", "each"}
    /\ pingTicker
    /\ pingTicker' = FALSE
    /\ pc' = "ready"
    /\ UNCHANGED <<r, client, clients, cancelled, intervalTicker, pingsFired,
                   lastPing, writeAPI, now0, now, idx, written, flushes,
                   flushOk, sendErr, log>>

\* run, case <-pingTicker: take the tick and call r.client.Ready(ctx).
RunPing ==
    /\ pc = "select"
    /\ pingTicker
    /\ pingTicker' = FALSE
    /\ pc' = "ready"
    /\ UNCHANGED <<r, client, clients, cancelled, intervalTicker, pingsFired,
                   lastPing, writeAPI, now0, now, idx, written, flushes,
                   flushOk, sendErr, log>>

\* Line 75 with && in place of ||.
UnhealthyBoth(isReady, err) == err /\ ~isReady

\* The condition of line 75.
Unhealthy(isReady, err) == err \/ ~isReady

\* Ready returns (isReady, err); lines 75-78: on an error or not ready, log
\* and makeClient.  A cancelled ctx makes the call return an error.
ReadyReturns(isReady, err) ==
    /\ pc = "ready"
    /\ cancelled => err
    /\ lastPing' = [ready |-> isReady, err |-> err]
    /\ IF Unhealthy(isReady, err)
       THEN /\ log' = log \cup {"ping"}
            /\ makeClient
       ELSE UNCHANGED <<log, client, clients>>
    /\ pc' = "select"
    /\ UNCHANGED <<r, cancelled, intervalTicker, pingTicker, pingsFired,
                   writeAPI, now0, now, idx, written, flushes, flushOk,
                   sendErr>>

RunReady == \E isReady \in BOOLEAN, err \in BOOLEAN : ReadyReturns(isReady, err)

Next ==
    \/ InfluxDBWithTags
    \/ IntervalTick
    \/ PingTick
    \/ Cancel
    \/ RunSend
    \/ SendEach
    \/ SendFlush
    \/ RunPing
    \/ RunReady

Spec == Init /\ [][Next]_vars

----------------------------------------------------------------------------
(* Properties *)

\* The points of the current cycle.
Points == BagToSet(written)

\* A cycle has run to its end and the goroutine is not inside another one.
CycleDone == idx > 0 /\ pc \in {"select", "ready"}

\* The last readiness check failed.
LastPingFailed == lastPing.err \/ ~lastPing.ready

\* The entries of the registry the current cycle has transformed.
Visited == {i \in 1..Len(r.reg) : idx > i}

\* The points of the current cycle whose field set holds key.
PointsWithKey(key) == {p \in Points : key \in DOMAIN p.fields}

\* The number of points of the current cycle, copies counted, in the set ps.
RECURSIVE Copies(_)
Copies(ps) ==
    IF ps = {} THEN 0
    ELSE LET p == CHOOSE x \in ps : TRUE IN
         CopiesIn(p, written) + Copies(ps \ {p})

\* The statistic named s of a Histogram or Timer snapshot, as the spec names
\* them.
Statistic(ms, s) ==
    CASE s = "count" -> ms.count.v
      [] s = "max" -> ms.max.v
      [] s = "mean" -> ms.mean.v
      [] s = "min" -> ms.min.v
      [] s = "stddev" -> ms.stddev.v
      [] s = "variance" -> ms.variance.v
      [] s = "p50" -> ms.pct[5000].v
      [] s = "p75" -> ms.pct[7500].v
      [] s = "p95" -> ms.pct[9500].v
      [] s = "p99" -> ms.pct[9900].v
      [] s = "p999" -> ms.pct[9990].v
      [] s = "p9999" -> ms.pct[9999].v
      [] s = "m1" -> ms.rate1.v
      [] s = "m5" -> ms.rate5.v
      [] s = "m15" -> ms.rate15.v
      [] s = "meanrate" -> ms.rateMean.v

DistributionStats ==
    {"count", "max", "mean", "min", "stddev", "variance",
     "p50", "p75", "p95", "p99", "p999", "p9999"}

TimerStats == DistributionStats \cup {"m1", "m5", "m15", "meanrate"}

\* The entry e has put exactly one point per statistic of stats in the
\* cycle, tagged bucket = the statistic, with the single field key and the
\* statistic's value.
OnePointPerStatistic(e, key, stats) ==
    /\ Copies(PointsWithKey(key)) = Cardinality(stats)
    /\ \A s \in stats :
          LET ps == {p \in PointsWithKey(key) : p.tags["bucket"] = s} IN
          /\ Copies(ps) = 1
          /\ \A p \in ps : /\ DOMAIN p.fields = {key}
                           /\ p.fields[key].v = Statistic(e.ms, s)

\* C1: every point written in a report cycle carries the one timestamp of
\* that cycle, and that timestamp does not change while the cycle runs.
C1_OneTimestampPerCycle ==
    /\ [](\A p \in Points : p.ts = now)
    /\ [][pc = "each" => (now' = now /\ now0' = now0)]_vars

\* A finished cycle over a registry of two compound metrics.
C1_Witness ==
    /\ CycleDone
    /\ Len(r.reg) = 2
    /\ Copies(Points) = 28
    /\ now > 0

\* C2: once ctx is cancelled the loop starts no further report cycle and no
\* further health check.
C2_CancelStopsTheLoop ==
    [][cancelled => ~(pc = "select" /\ pc' \in {"each", "ready"})]_vars

\* C3: a readiness check that returns an error or not ready installs a newly
\* constructed client before the goroutine is back at the select, whatever
\* report tick is pending; every failed check does.
C3_UnhealthyReplaces ==
    /\ [](LastPingFailed => (client = clients /\ client >= 2))
    /\ [][(pc = "ready" /\ pc' # "ready" /\ (lastPing'.err \/ ~lastPing'.ready))
            => (/\ clients' = clients + 1
                /\ client' = clients'
                /\ client' # client
                /\ pc' = "select")]_vars

\* The second replacement in a row is in place, a cycle is running and the
\* next report tick is already pending.
C3_Witness ==
    /\ LastPingFailed
    /\ client = 3
    /\ pc = "each"
    /\ intervalTicker

\* C4: the loop, once entered, is never left, whatever the backend answers;
\* the call has returned only when the url did not parse; and a pending
\* report tick can always be taken at the select.
C4_ErrorsDoNotStopTheLoop ==
    /\ [][Running => Running']_vars
    /\ [](pc = "returned" => ParseErr(r.url))
    /\ []((pc = "select" /\ intervalTicker) => ENABLED RunSend)

\* A new cycle is running after a failed batch and a failed readiness check.
C4_Witness ==
    /\ pc = "each"
    /\ idx > 0
    /\ ~flushOk
    /\ LastPingFailed

\* C5: with a url that does not parse the call logs and returns with no
\* client made, no ticker running and no cycle or check done; with a url
\* that parses the loop is entered with exactly one client made.
C5_StartupAbort ==
    /\ (ParseErr(r.url) /\ pc # "start") =>
          /\ pc = "returned"
          /\ "parse" \in log
          /\ client = 0
          /\ clients = 0
          /\ ~intervalTicker
          /\ ~pingTicker
          /\ pingsFired = 0
          /\ idx = 0
          /\ lastPing = NoPing
    /\ (~ParseErr(r.url) /\ pc # "start") =>
          /\ Running
          /\ "parse" \notin log
          /\ client = clients
          /\ clients >= 1
          /\ (pingsFired = 0 => clients = 1)

\* The call has returned on the url error.
C5_Witness == pc = "returned" /\ ParseErr(r.url) /\ cancelled

\* C6: a cycle flushes exactly once, after Each has visited every entry and
\* never while points are still being submitted; send returns no error; an
\* empty registry gives a cycle of zero points that still flushes.
C6_FlushOnceAtTheEnd ==
    /\ flushes <= 1
    /\ pc = "each" => flushes = 0
    /\ CycleDone =>
          /\ flushes = 1
          /\ idx = Len(r.reg) + 1
          /\ ~sendErr
          /\ (r.reg = <<>> => written = EmptyBag)

\* A finished cycle over the empty registry.
C6_Witness == CycleDone /\ r.reg = <<>> /\ flushes = 1 /\ written = EmptyBag

\* C7: with alignment the cycle's timestamp is a multiple of the interval,
\* not after the clock reading and less than one interval before it; without
\* alignment it is the clock reading.
C7_Alignment ==
    idx > 0 =>
       IF r.align
       THEN /\ now % r.interval = 0
            /\ now <= now0
            /\ now0 - now < r.interval
       ELSE now = now0

\* An aligned cycle whose clock reading was not on a boundary.
C7_Witness == idx > 0 /\ r.align /\ r.interval = 2 /\ now0 = 3 /\ now = 2

\* C8: every point written carries every base tag with its configured value.
C8_BaseTagsOnEveryPoint ==
    \A p \in Points : \A k \in DOMAIN r.tags :
        k \in DOMAIN p.tags /\ p.tags[k] = r.tags[k]

\* C9: a Histogram entry named n puts exactly 12 points in the cycle, one
\* per distribution statistic, tagged bucket = the statistic, with the single
\* field key n.histogram and the statistic's value.
C9_HistogramPoints ==
    \A i \in Visited :
        r.reg[i].kind = "Histogram" =>
            OnePointPerStatistic(r.reg[i], r.reg[i].name \o ".histogram",
                                 DistributionStats)

\* A finished cycle over a registry holding a Histogram after a Timer.
C9_Witness ==
    /\ CycleDone
    /\ Len(r.reg) = 2
    /\ r.reg[2].kind = "Histogram"
    /\ Copies(PointsWithKey("h.histogram")) = 12

\* C10: a Timer entry named n puts exactly 16 points in the cycle, one per
\* statistic, all with the single field key n.timer; the rate is under
\* bucket = meanrate and the distribution's mean under bucket = mean.
C10_TimerPoints ==
    \A i \in Visited :
        r.reg[i].kind = "Timer" =>
            /\ OnePointPerStatistic(r.reg[i], r.reg[i].name \o ".timer",
                                    TimerStats)
            /\ \A p \in PointsWithKey(r.reg[i].name \o ".timer") :
                  /\ p.tags["bucket"] = "meanrate" =>
                        p.fields[r.reg[i].name \o ".timer"].v
                            = r.reg[i].ms.rateMean.v
                  /\ p.tags["bucket"] = "mean" =>
                        p.fields[r.reg[i].name \o ".timer"].v
                            = r.reg[i].ms.mean.v

\* A finished cycle over the registry holding only a Timer.
C10_Witness ==
    /\ CycleDone
    /\ Len(r.reg) = 1
    /\ r.reg[1].kind = "Timer"
    /\ Copies(PointsWithKey("t.timer")) = 16

\* The entry e has put exactly one point in the cycle, with the single
\* field key holding value and exactly the reporter's tags.
OnePlainPoint(key, value) ==
    /\ Copies(PointsWithKey(key)) = 1
    /\ \A p \in PointsWithKey(key) :
          /\ DOMAIN p.fields = {key}
          /\ p.fields[key] = value
          /\ p.tags = r.tags

\* C11: a Counter, Gauge or GaugeFloat64 entry named n puts exactly one point
\* in the cycle, with the one field n.count (the snapshot's count) or n.gauge
\* (the snapshot's value, integer or float), and exactly the base tags: no
\* bucket tag is added.
C11_SimpleMetricPoints ==
    \A i \in Visited :
        LET e == r.reg[i] IN
        /\ e.kind = "Counter" =>
              OnePlainPoint(e.name \o ".count", e.ms.count)
        /\ e.kind \in {"Gauge", "GaugeFloat64"} =>
              OnePlainPoint(e.name \o ".gauge", e.ms.value)

\* A finished cycle that held a Gauge, under base tags without a bucket key.
C11_Witness ==
    /\ CycleDone
    /\ Len(r.reg) = 3
    /\ r.reg[3].kind = "Gauge"
    /\ DOMAIN r.tags = {"host"}
    /\ Copies(PointsWithKey("g.gauge")) = 1

MeterStats == {"count", "m1", "m5", "m15", "mean"}

\* The statistic named s of a Meter snapshot, as the spec names them.
MeterStatistic(ms, s) ==
    CASE s = "count" -> ms.count.v
      [] s = "m1" -> ms.rate1.v
      [] s = "m5" -> ms.rate5.v
      [] s = "m15" -> ms.rate15.v
      [] s = "mean" -> ms.rateMean.v

\* C12: a Meter entry named n puts exactly 5 points in the cycle, one per
\* statistic of count, m1, m5, m15 and mean, tagged bucket = the statistic,
\* with the single field key n.meter.
C12_MeterPoints ==
    \A i \in Visited :
        r.reg[i].kind = "Meter" =>
            LET key == r.reg[i].name \o ".meter" IN
            /\ Copies(PointsWithKey(key)) = 5
            /\ \A s \in MeterStats :
                  LET ps == {p \in PointsWithKey(key) : p.tags["bucket"] = s}
                  IN /\ Copies(ps) = 1
                     /\ \A p \in ps :
                           /\ DOMAIN p.fields = {key}
                           /\ p.fields[key].v = MeterStatistic(r.reg[i].ms, s)

\* A cycle that has just transformed a Meter and is still running.
C12_Witness ==
    /\ pc = "each"
    /\ idx = 2
    /\ r.reg[1].kind = "Meter"
    /\ Copies(PointsWithKey("m.meter")) = 5

\* C13: a cycle whose batch the backend did not accept leaves a log message
\* about the failed send.
C13_SendFailureIsLogged == ~flushOk => "send" \in log

C15_OneHandlerAtATime ==
    /\ [][pc = "each" =>
             /\ pc' \in {"each", "select"}
             /\ lastPing' = lastPing
             /\ client' = client
             /\ clients' = clients]_vars
    /\ [][pc = "ready" =>
             /\ pc' \in {"ready", "select"}
             /\ written' = written
             /\ idx' = idx
             /\ flushes' = flushes
             /\ writeAPI' = writeAPI
             /\ now' = now]_vars
    /\ [](pc \in {"each", "ready"} => (~ENABLED RunSend /\ ~ENABLED RunPing))

\* A health check is in flight while a report tick and a further ping tick
\* are pending.
C15_Witness ==
    /\ pc = "ready"
    /\ intervalTicker
    /\ pingTicker
    /\ idx > 0

\* C16: the write handle of a cycle is the one of the client that is
\* current when the cycle starts, a constructed client, and it stays the
\* handle of every WritePoint and of the Flush of that cycle.
C16_OneHandlePerCycle ==
    /\ [](pc = "each" => (writeAPI = client /\ writeAPI >= 1))
    /\ [](CycleDone => (writeAPI >= 1 /\ writeAPI <= client))
    /\ [][pc = "each" => writeAPI' = writeAPI]_vars

\* A finished cycle that used the handle of the second client, which has
\* been replaced since.
C16_Witness ==
    /\ CycleDone
    /\ writeAPI = 2
    /\ client = 3
    /\ written # EmptyBag

KnownKinds ==
    {"Counter", "Gauge", "GaugeFloat64", "Histogram", "Meter", "Timer"}

\* The number of points the spec gives an entry of the kind.
PointCount(kind) ==
    CASE kind \in {"Counter", "Gauge", "GaugeFloat64"} -> 1
      [] kind = "Histogram" -> 12
      [] kind = "Meter" -> 5
      [] kind = "Timer" -> 16
      [] OTHER -> 0

\* The number of points the spec gives the entries is of the registry.
RECURSIVE PointCounts(_)
PointCounts(is) ==
    IF is = {} THEN 0
    ELSE LET i == CHOOSE x \in is : TRUE IN
         PointCount(r.reg[i].kind) + PointCounts(is \ {i})

\* C17: in a cycle over a registry that holds an entry of another kind, that
\* entry adds no point: the points are those of the other entries visited;
\* the cycle visits every entry, flushes and returns no error.
C17_UnknownKindSkipped ==
    (\E i \in Visited : r.reg[i].kind \notin KnownKinds) =>
        /\ Copies(Points) = PointCounts(Visited)
        /\ CycleDone =>
              /\ idx = Len(r.reg) + 1
              /\ flushes = 1
              /\ ~sendErr
              /\ "send" \notin log

\* A finished cycle over a Healthcheck followed by a Counter.
C17_Witness ==
    /\ CycleDone
    /\ Len(r.reg) = 2
    /\ r.reg[1].kind = "Healthcheck"
    /\ Copies(PointsWithKey("c.count")) = 1
    /\ flushes = 1

\* C18: once made, the client changes only at the return of a readiness
\* check that failed; a check that returns ready and no error leaves it, and
\* so does every step of a report cycle, whatever the backend answered.
C18_ClientChangesOnlyOnFailedCheck ==
    /\ [][client' # client =>
             \/ pc = "start"
             \/ pc = "ready" /\ (lastPing'.err \/ ~lastPing'.ready)]_vars
    /\ [][(pc = "ready" /\ pc' = "select" /\ lastPing'.ready /\ ~lastPing'.err)
             => (client' = client /\ clients' = clients)]_vars
    /\ [][pc = "each" => (client' = client /\ clients' = clients)]_vars

\* The first client is still in place after a failed batch and a readiness
\* check that passed.
C18_Witness ==
    /\ pc = "select"
    /\ pingsFired = 1
    /\ ~pingTicker
    /\ ~LastPingFailed
    /\ ~flushOk
    /\ client = 1

\* C19: no step changes the reporter's configuration; the base tags are the
\* configured ones after every entry of every cycle.
C19_ConfigurationUnchanged == [][r' = r]_vars

\* A finished cycle over two compound metrics under a base tag, after a
\* client replacement.
C19_Witness ==
    /\ CycleDone
    /\ Len(r.reg) = 2
    /\ r.reg[1].kind = "Timer"
    /\ DOMAIN r.tags = {"host"}
    /\ client = 2
    /\ Copies(Points) = 28

====
